---- MODULE Spec2Model ----
(***************************************************************************)
(* Frame orchestration of the VideoGenerator client: Renderer::renderFrame *)
(* (src/src/client/Renderer.cpp) driven by a caller, with the GPU queue    *)
(* and the presentation engine running asynchronously to the CPU thread.   *)
(* The CPU thread is modelled by its position pc inside renderFrame; the   *)
(* GPU executes the submitted command buffers in submission order, one     *)
(* recorded command per step.                                              *)
(***************************************************************************)
EXTENDS Integers, Sequences, FiniteSets, TLC

\* ----- bounds of the model ------------------------------------------------
MaxCalls == 4          \* renderFrame calls made by the caller
NumImages == 3         \* images of the swapchain (VulkanContext.cpp:101, at least 2)

\* ----- program constants --------------------------------------------------
maxFramesInFlight == 2

Slots == 0 .. (maxFramesInFlight - 1)
Images == 0 .. (NumImages - 1)

AcquireResults == {"SUCCESS", "SUBOPTIMAL", "OUT_OF_DATE", "ERROR"}
PresentResults == {"SUCCESS", "SUBOPTIMAL", "OUT_OF_DATE", "ERROR"}

VARIABLES
    pc,              \* position of the CPU thread
    result,          \* outcome of the last renderFrame call
    calls,           \* number of renderFrame calls started (frame number)
    currentFrame,    \* Renderer::currentFrame
    inFlightFence,   \* frames[s].inFlightFence: TRUE = signaled
    imageAvailable,  \* frames[s].imageAvailable: pending signals
    renderFinished,  \* frames[s].renderFinished: pending signals
    imageIndex,      \* local imageIndex of the running call
    images,          \* ownership of each swapchain image
    cmd,             \* commands recorded in the local command buffer
    liveCmds,        \* frames whose command buffer is allocated
    gpuQueue,        \* submissions not yet completed, in submission order
    presentQueue,    \* present requests not yet processed
    canvasLayout,    \* layout of compute->storageImage on the GPU timeline
    canvas,          \* frame whose pixels the canvas holds
    staging,         \* frame whose pixels the staging buffer holds
    deviceLost,      \* the device was lost
    acq,             \* acquisition result of the running / last call
    didSubmit,       \* the running / last call made a queue submission
    didPresent,      \* the running / last call made a present request
    fenceWaits,      \* wait+reset of slot s's fence since its last submission
    slotUsed,        \* slot s was used by a submission
    submitted,       \* frames that were submitted
    signaled,        \* frames whose submission signaled its fence
    mapCount,        \* vkMapMemory calls on stagingMemory not yet unmapped
    outMappedPtr,    \* *outMappedPtr as left by the last call
    ctxWidth,        \* VulkanContext::width (window size)
    ctxHeight,       \* VulkanContext::height
    swapchainExtent, \* VulkanContext::swapchainExtent
    width,           \* ComputePipeline::width (canvas)
    height,          \* ComputePipeline::height
    stagingSize,     \* Renderer::stagingSize
    outSize,         \* *outSize as left by the last call
    what,            \* where the running / last call raised its error
    thrown,          \* some renderFrame call has raised an error
    pres,            \* local VkResult pres of the running call, once set
    computeDevice,   \* ComputePipeline::device is not VK_NULL_HANDLE
    ctxDevice,       \* VulkanContext::device is not VK_NULL_HANDLE
    surface,         \* VulkanContext::surface is not VK_NULL_HANDLE
    instance,        \* VulkanContext::instance is not VK_NULL_HANDLE
    stagingMemory,   \* Renderer::stagingMemory is not VK_NULL_HANDLE
    frameObjects,    \* slots of Renderer::frames with non-null handles
    destroyLog,      \* per object, its vkDestroy*/vkFree*/vkUnmap calls in order
    cleanups,        \* per object, its cleanup calls so far: was init done?
    t,               \* renderFrame's parameter t of the running / last call
    typeFilter,      \* findMemoryType's argument typeFilter
    props,           \* findMemoryType's argument props
    memProps,        \* memProps.memoryTypes[i].propertyFlags, i < memoryTypeCount
    memState,        \* findMemoryType: "idle", "returned" or "thrown"
    memResult,       \* the index findMemoryType returned
    ffmpeg,          \* VideoWriter::ffmpeg is not null (the pipe is open)
    stream,          \* bytes the pipe's stream has accepted, in order
    passed,          \* writeFrameRGBA calls that reached fwrite on this pipe:
                     \* the bytes passed and fwrite's return value
    warnings,        \* short-write warnings reported
    pcloses,         \* pclose calls made
    openFailed,      \* open has raised its error
    writerCalls,     \* calls made of open, writeFrameRGBA and close
    oneShotPc,       \* position inside begin/endSingleTimeCommands
    oneShotCmd,      \* the one-shot command buffer is allocated
    recorded,        \* commands recorded in the one-shot command buffer
    queueLeft,       \* commands of its submission the queue has yet to run
    oneShotLog,      \* Vulkan calls endSingleTimeCommands has made, in order
    oneShots         \* uses of the one-shot helper so far

rendererVars == << pc, result, calls, currentFrame, inFlightFence, imageAvailable,
           renderFinished, imageIndex, images, cmd, liveCmds, gpuQueue,
           presentQueue, canvasLayout, canvas, staging, deviceLost, acq,
           didSubmit, didPresent, fenceWaits, slotUsed, submitted, signaled,
           mapCount, outMappedPtr, ctxWidth, ctxHeight, swapchainExtent,
           width, height, stagingSize, outSize, what, thrown, pres,
           computeDevice, ctxDevice, surface, instance, stagingMemory,
           frameObjects, destroyLog, cleanups, t >>

\* VulkanContext::findMemoryType, VideoWriter and the one-shot command helper,
\* units outside the frame loop
memVars == << typeFilter, props, memProps, memState, memResult >>
writerVars == << ffmpeg, stream, passed, warnings, pcloses, openFailed,
                writerCalls >>
oneShotVars == << oneShotPc, oneShotCmd, recorded, queueLeft, oneShotLog,
                 oneShots >>
unitVars == << memVars, writerVars, oneShotVars >>

vars == << rendererVars, unitVars >>

\* what VulkanContext::init and ComputePipeline::init fix for the lifetime
ctxVars == << ctxWidth, ctxHeight, swapchainExtent >>
sizeVars == << ctxVars, width, height, stagingSize >>
errVars == << what, thrown >>
\* the handles the cleanup functions test, and what they have destroyed
ctxHandles == << ctxDevice, surface, instance >>
rendererHandles == << stagingMemory, frameObjects >>
shutLog == << destroyLog, cleanups >>
shutVars == << computeDevice, ctxHandles, rendererHandles, shutLog >>

\* ----- recorded commands --------------------------------------------------
Barrier(target, old, new) ==
    [op |-> "barrier", target |-> target, old |-> old, new |-> new]

\* a group count that adds a group instead of rounding up
GroupCount_ExtraGroup(n) == n \div 16 + 1

\* (n + 15) / 16 of recordDispatch
GroupCount(n) == (n + 15) \div 16

\* a dispatch that binds a descriptor set of the slot in use
recordDispatch_PerSlot(tm) ==
    [op |-> "dispatch", target |-> "canvas", old |-> "GENERAL", new |-> "GENERAL",
     t |-> tm, pipeline |-> "pipeline", descSet |-> currentFrame,
     gx |-> GroupCount(width), gy |-> GroupCount(height), gz |-> 1]

\* ComputePipeline::recordDispatch: bind the pipeline and the descriptor set,
\* push the time value, dispatch gx by gy by 1 groups that rewrite the canvas
recordDispatch(tm) ==
    [op |-> "dispatch", target |-> "canvas", old |-> "GENERAL", new |-> "GENERAL",
     t |-> tm, pipeline |-> "pipeline", descSet |-> "descSet",
     gx |-> GroupCount(width), gy |-> GroupCount(height), gz |-> 1]

toTransferSrc == Barrier("canvas", "GENERAL", "TRANSFER_SRC")
swapToDst == Barrier("swapchain", "UNDEFINED", "TRANSFER_DST")
copyRegion == [op |-> "copyImage", target |-> "swapchain", old |-> "TRANSFER_SRC", new |-> "TRANSFER_DST"]
bic == [op |-> "copyImageToBuffer", target |-> "staging", old |-> "TRANSFER_SRC", new |-> "TRANSFER_SRC"]
swapToPresent == Barrier("swapchain", "TRANSFER_DST", "PRESENT_SRC")
srcToGeneral == Barrier("canvas", "TRANSFER_SRC", "GENERAL")

\* a recording that copies into the staging buffer after the canvas went
\* back to GENERAL
FrameCommands_LateCopy(tm) ==
    << recordDispatch(tm), toTransferSrc, swapToDst, copyRegion,
       swapToPresent, srcToGeneral, bic >>

\* the command buffer renderFrame records between vkBegin/vkEndCommandBuffer
FrameCommands(tm) ==
    << recordDispatch(tm), toTransferSrc, swapToDst, copyRegion, bic,
       swapToPresent, srcToGeneral >>

\* ----- bounds and inputs of the set-up ------------------------------------
MaxDim == 2            \* largest window / surface dimension
MaxCleanups == 2       \* cleanup calls explored per object

\* the three objects with a cleanup function
Objects == {"Renderer", "ComputePipeline", "VulkanContext"}

\* caps.currentExtent.width == UINT32_MAX says the surface leaves the extent
\* to the swapchain; the value is kept as its two's-complement reading
UINT32_MAX == -1

Extent(w, h) == [width |-> w, height |-> h]

WindowSizes == { Extent(w, h) : w \in 1 .. MaxDim, h \in 1 .. MaxDim }
CurrentExtents == WindowSizes \cup { Extent(UINT32_MAX, UINT32_MAX) }

\* VulkanContext::init: the extent of the swapchain
SwapchainExtentOf(currentExtent, w, h) ==
    IF currentExtent.width # UINT32_MAX THEN currentExtent ELSE Extent(w, h)

\* Renderer::init: one RGBA8 frame of the swapchain extent
StagingSizeOf(extent) == extent.width * extent.height * 4

\* the state after VulkanContext::init, for a window size and a surface
\* capability drawn from the given sets
RendererStart(windows, extents) ==
    /\ \E win \in windows, cur \in extents :
          /\ ctxWidth = win.width
          /\ ctxHeight = win.height
          /\ swapchainExtent = SwapchainExtentOf(cur, win.width, win.height)
    /\ width = 0
    /\ height = 0
    /\ stagingSize = 0
    /\ outSize = 0
    /\ what = "none"
    /\ thrown = FALSE
    /\ pres = "none"
    /\ computeDevice = FALSE
    /\ ctxDevice = TRUE
    /\ surface = TRUE
    /\ instance = TRUE
    /\ stagingMemory = FALSE
    /\ frameObjects = {}
    /\ destroyLog = [o \in Objects |-> << >>]
    /\ cleanups = [o \in Objects |-> << >>]
    /\ pc = "start"
    /\ result = "none"
    /\ calls = 0
    /\ currentFrame = 0
    /\ inFlightFence = [s \in Slots |-> FALSE]
    /\ imageAvailable = [s \in Slots |-> 0]
    /\ renderFinished = [s \in Slots |-> 0]
    /\ imageIndex = 0
    /\ images = [i \in Images |-> "free"]
    /\ cmd = << >>
    /\ liveCmds = {}
    /\ gpuQueue = << >>
    /\ presentQueue = << >>
    /\ canvasLayout = "UNDEFINED"
    /\ canvas = 0
    /\ staging = 0
    /\ deviceLost = FALSE
    /\ acq = "none"
    /\ didSubmit = FALSE
    /\ didPresent = FALSE
    /\ fenceWaits = [s \in Slots |-> 0]
    /\ slotUsed = [s \in Slots |-> FALSE]
    /\ submitted = {}
    /\ signaled = {}
    /\ mapCount = 0
    /\ outMappedPtr = "unset"
    /\ t = 0

\* findMemoryType has not been called
MemIdle ==
    /\ typeFilter = 0
    /\ props = 0
    /\ memProps = << >>
    /\ memState = "idle"
    /\ memResult = 0

\* a VideoWriter before open
WriterClosed ==
    /\ ffmpeg = FALSE
    /\ stream = << >>
    /\ passed = << >>
    /\ warnings = 0
    /\ pcloses = 0
    /\ openFailed = FALSE
    /\ writerCalls = [f \in {"open", "writeFrameRGBA", "close"} |-> 0]

\* the one-shot helper has not been used
OneShotIdle ==
    /\ oneShotPc = "idle"
    /\ oneShotCmd = FALSE
    /\ recorded = 0
    /\ queueLeft = 0
    /\ oneShotLog = << >>
    /\ oneShots = 0

InitSized(windows, extents) ==
    /\ RendererStart(windows, extents)
    /\ MemIdle
    /\ WriterClosed
    /\ OneShotIdle

\* the frame loop is explored for one window whose surface leaves the extent
\* to the swapchain
Init == InitSized({Extent(MaxDim, MaxDim)}, {Extent(UINT32_MAX, UINT32_MAX)})

\* every window size and surface extent of the bounds
SizeInit == InitSized(WindowSizes, CurrentExtents)

\* ----- set-up -------------------------------------------------------------
\* ComputePipeline::init: the one-shot UNDEFINED -> GENERAL transition of the
\* canvas through begin/endSingleTimeCommands.  endSingleTimeCommands does not
\* look at vkQueueSubmit's result: when the submission fails the barrier never
\* runs and init returns normally all the same.
ComputeInit(submitOk) ==
    /\ pc = "start"
    /\ pc' = "compute_ready"
    /\ canvasLayout' = IF submitOk THEN "GENERAL" ELSE canvasLayout
    /\ UNCHANGED << result, calls, currentFrame, inFlightFence, imageAvailable,
                    renderFinished, imageIndex, images, cmd, liveCmds, gpuQueue,
                    presentQueue, canvas, staging, deviceLost, acq, didSubmit,
                    didPresent, fenceWaits, slotUsed, submitted, signaled,
                    mapCount, outMappedPtr >>
    /\ width' = ctxWidth
    /\ height' = ctxHeight
    /\ UNCHANGED << ctxVars, stagingSize, outSize, errVars >>
    /\ UNCHANGED pres
    /\ computeDevice' = TRUE
    /\ UNCHANGED << ctxHandles, rendererHandles, shutLog >>
    /\ UNCHANGED t
    /\ UNCHANGED unitVars

\* Renderer::init: per-slot semaphores and fences (created signaled), the
\* staging buffer, mapped once.
RendererInit ==
    /\ pc = "compute_ready"
    /\ pc' = "idle"
    /\ inFlightFence' = [s \in Slots |-> TRUE]
    /\ imageAvailable' = [s \in Slots |-> 0]
    /\ renderFinished' = [s \in Slots |-> 0]
    /\ mapCount' = 1
    /\ UNCHANGED << result, calls, currentFrame, imageIndex, images, cmd,
                    liveCmds, gpuQueue, presentQueue, canvasLayout, canvas,
                    staging, deviceLost, acq, didSubmit, didPresent,
                    fenceWaits, slotUsed, submitted, signaled, outMappedPtr >>
    /\ stagingSize' = StagingSizeOf(swapchainExtent)
    /\ UNCHANGED << ctxVars, width, height, outSize, errVars >>
    /\ UNCHANGED pres
    /\ stagingMemory' = TRUE
    /\ frameObjects' = Slots
    /\ UNCHANGED << computeDevice, ctxHandles, shutLog >>
    /\ UNCHANGED t
    /\ UNCHANGED unitVars

\* ----- Renderer::renderFrame, step by step --------------------------------
\* the caller enters renderFrame (ctx and compute are set by init)
Call(tv) ==
    /\ pc = "idle"
    /\ calls < MaxCalls
    /\ pc' = "wait"
    /\ calls' = calls + 1
    /\ acq' = "none"
    /\ didSubmit' = FALSE
    /\ didPresent' = FALSE
    /\ UNCHANGED << result, currentFrame, inFlightFence, imageAvailable,
                    renderFinished, imageIndex, images, cmd, liveCmds,
                    gpuQueue, presentQueue, canvasLayout, canvas, staging,
                    deviceLost, fenceWaits, slotUsed, submitted, signaled,
                    mapCount, outMappedPtr >>
    /\ what' = "none"
    /\ UNCHANGED << sizeVars, outSize, thrown >>
    /\ UNCHANGED pres
    /\ UNCHANGED shutVars
    /\ t' = tv
    /\ UNCHANGED unitVars

\* a renderFrame that goes on without waiting for the slot's fence
WaitFence_NoWait ==
    /\ pc = "wait"
    /\ pc' = "acquire"
    /\ UNCHANGED << result, calls, currentFrame, inFlightFence, imageAvailable,
                    renderFinished, imageIndex, images, cmd, liveCmds,
                    gpuQueue, presentQueue, canvasLayout, canvas, staging,
                    deviceLost, acq, didSubmit, didPresent, fenceWaits,
                    slotUsed, submitted, signaled, mapCount, outMappedPtr >>
    /\ UNCHANGED << sizeVars, outSize, errVars >>
    /\ UNCHANGED pres
    /\ UNCHANGED shutVars
    /\ UNCHANGED t
    /\ UNCHANGED unitVars

\* a renderFrame that waits for the slot's fence and does not reset it
WaitFence_NoReset ==
    /\ pc = "wait"
    /\ inFlightFence[currentFrame] \/ deviceLost
    /\ pc' = "acquire"
    /\ fenceWaits' = [fenceWaits EXCEPT ![currentFrame] = @ + 1]
    /\ UNCHANGED << result, calls, currentFrame, inFlightFence, imageAvailable,
                    renderFinished, imageIndex, images, cmd, liveCmds,
                    gpuQueue, presentQueue, canvasLayout, canvas, staging,
                    deviceLost, acq, didSubmit, didPresent, slotUsed,
                    submitted, signaled, mapCount, outMappedPtr >>
    /\ UNCHANGED << sizeVars, outSize, errVars >>
    /\ UNCHANGED pres
    /\ UNCHANGED shutVars
    /\ UNCHANGED t
    /\ UNCHANGED unitVars

\* vkWaitForFences(UINT64_MAX) then vkResetFences on frames[currentFrame].
\* The wait returns when the fence is signaled; on a lost device it returns
\* an error, which renderFrame does not look at.
WaitFence ==
    /\ pc = "wait"
    /\ inFlightFence[currentFrame] \/ deviceLost
    /\ pc' = "acquire"
    /\ inFlightFence' = [inFlightFence EXCEPT ![currentFrame] = FALSE]
    /\ fenceWaits' = [fenceWaits EXCEPT ![currentFrame] = @ + 1]
    /\ UNCHANGED << result, calls, currentFrame, imageAvailable,
                    renderFinished, imageIndex, images, cmd, liveCmds,
                    gpuQueue, presentQueue, canvasLayout, canvas, staging,
                    deviceLost, acq, didSubmit, didPresent, slotUsed,
                    submitted, signaled, mapCount, outMappedPtr >>
    /\ UNCHANGED << sizeVars, outSize, errVars >>
    /\ UNCHANGED pres
    /\ UNCHANGED shutVars
    /\ UNCHANGED t
    /\ UNCHANGED unitVars

\* an acquisition whose out-of-date result falls through to recording
Acquire_StaleContinues(r) ==
    /\ pc = "acquire"
    /\ deviceLost => r = "ERROR"
    /\ acq' = r
    /\ IF r = "ERROR"
       THEN /\ pc' = "idle"
            /\ result' = "throw"
            /\ what' = "acquire"
            /\ thrown' = TRUE
            /\ UNCHANGED << imageIndex, images, imageAvailable >>
       ELSE /\ \E i \in Images :
                 /\ images[i] = "free"
                 /\ imageIndex' = i
                 /\ images' = [images EXCEPT ![i] = "acquired"]
            /\ imageAvailable' = [imageAvailable EXCEPT ![currentFrame] = @ + 1]
            /\ pc' = "record"
            /\ UNCHANGED << result, errVars >>
    /\ UNCHANGED << calls, currentFrame, inFlightFence, renderFinished, cmd,
                    liveCmds, gpuQueue, presentQueue, canvasLayout, canvas,
                    staging, deviceLost, didSubmit, didPresent, fenceWaits,
                    slotUsed, submitted, signaled, mapCount, outMappedPtr >>
    /\ UNCHANGED << sizeVars, outSize >>
    /\ UNCHANGED pres
    /\ UNCHANGED shutVars
    /\ UNCHANGED t
    /\ UNCHANGED unitVars

\* vkAcquireNextImageKHR(UINT64_MAX, fo.imageAvailable) and the branch on r
Acquire(r) ==
    /\ pc = "acquire"
    /\ deviceLost => r = "ERROR"
    /\ acq' = r
    /\ CASE r = "OUT_OF_DATE" ->
              /\ pc' = "idle"
              /\ result' = "false"
              /\ UNCHANGED errVars
              /\ UNCHANGED << imageIndex, images, imageAvailable >>
         [] r = "ERROR" ->
              /\ pc' = "idle"
              /\ result' = "throw"
              /\ what' = "acquire"
              /\ thrown' = TRUE
              /\ UNCHANGED << imageIndex, images, imageAvailable >>
         [] OTHER ->
              /\ \E i \in Images :
                   /\ images[i] = "free"
                   /\ imageIndex' = i
                   /\ images' = [images EXCEPT ![i] = "acquired"]
              /\ imageAvailable' = [imageAvailable EXCEPT ![currentFrame] = @ + 1]
              /\ pc' = "record"
              /\ UNCHANGED << result, errVars >>
    /\ UNCHANGED << calls, currentFrame, inFlightFence, renderFinished, cmd,
                    liveCmds, gpuQueue, presentQueue, canvasLayout, canvas,
                    staging, deviceLost, didSubmit, didPresent, fenceWaits,
                    slotUsed, submitted, signaled, mapCount, outMappedPtr >>
    /\ UNCHANGED << sizeVars, outSize >>
    /\ UNCHANGED pres
    /\ UNCHANGED shutVars
    /\ UNCHANGED t
    /\ UNCHANGED unitVars

\* vkAllocateCommandBuffers .. vkEndCommandBuffer: the frame's command buffer
Record ==
    /\ pc = "record"
    /\ pc' = "submit"
    /\ cmd' = FrameCommands(t)
    /\ liveCmds' = liveCmds \cup {calls}
    /\ UNCHANGED << result, calls, currentFrame, inFlightFence, imageAvailable,
                    renderFinished, imageIndex, images, gpuQueue, presentQueue,
                    canvasLayout, canvas, staging, deviceLost, acq, didSubmit,
                    didPresent, fenceWaits, slotUsed, submitted, signaled,
                    mapCount, outMappedPtr >>
    /\ UNCHANGED << sizeVars, outSize, errVars >>
    /\ UNCHANGED pres
    /\ UNCHANGED shutVars
    /\ UNCHANGED t
    /\ UNCHANGED unitVars

\* vkQueueSubmit: waits frames[currentFrame].imageAvailable, signals
\* frames[currentFrame].renderFinished and frames[currentFrame].inFlightFence
Submit(ok) ==
    /\ pc = "submit"
    /\ deviceLost => ~ok
    /\ IF ok
       THEN /\ gpuQueue' = Append(gpuQueue,
                  [frame |-> calls, slot |-> currentFrame, image |-> imageIndex,
                   waitSemaphores |-> currentFrame,
                   signalSemaphores |-> currentFrame, fence |-> currentFrame,
                   cmds |-> cmd, pos |-> 0, freed |-> FALSE])
            /\ didSubmit' = TRUE
            /\ submitted' = submitted \cup {calls}
            /\ fenceWaits' = [fenceWaits EXCEPT ![currentFrame] = 0]
            /\ slotUsed' = [slotUsed EXCEPT ![currentFrame] = TRUE]
            /\ pc' = "present"
            /\ UNCHANGED << result, errVars >>
       ELSE /\ pc' = "idle"
            /\ result' = "throw"
            /\ what' = "submit"
            /\ thrown' = TRUE
            /\ UNCHANGED << gpuQueue, didSubmit, submitted, fenceWaits, slotUsed >>
    /\ UNCHANGED << calls, currentFrame, inFlightFence, imageAvailable,
                    renderFinished, imageIndex, images, cmd, liveCmds,
                    presentQueue, canvasLayout, canvas, staging, deviceLost,
                    acq, didPresent, signaled, mapCount, outMappedPtr >>
    /\ UNCHANGED << sizeVars, outSize >>
    /\ UNCHANGED pres
    /\ UNCHANGED shutVars
    /\ UNCHANGED t
    /\ UNCHANGED unitVars

\* vkQueuePresentKHR waiting on frames[currentFrame].renderFinished
Present(r) ==
    /\ pc = "present"
    /\ deviceLost => r = "ERROR"
    /\ didPresent' = TRUE
    /\ IF r = "ERROR"
       THEN /\ pc' = "idle"
            /\ result' = "throw"
            /\ what' = "present"
            /\ thrown' = TRUE
            /\ UNCHANGED << presentQueue, images >>
       ELSE /\ presentQueue' = Append(presentQueue,
                  [frame |-> calls, image |-> imageIndex, slot |-> currentFrame,
                   waitSemaphores |-> currentFrame])
            /\ images' = [images EXCEPT ![imageIndex] = "queued"]
            /\ pc' = "map"
            /\ UNCHANGED << result, errVars >>
    /\ UNCHANGED << calls, currentFrame, inFlightFence, imageAvailable,
                    renderFinished, imageIndex, cmd, liveCmds, gpuQueue,
                    canvasLayout, canvas, staging, deviceLost, acq, didSubmit,
                    fenceWaits, slotUsed, submitted, signaled, mapCount,
                    outMappedPtr >>
    /\ UNCHANGED << sizeVars, outSize >>
    /\ pres' = IF r = "ERROR" THEN "none" ELSE r
    /\ UNCHANGED shutVars
    /\ UNCHANGED t
    /\ UNCHANGED unitVars

\* vkMapMemory on stagingMemory, which init left mapped: the call is outside
\* the API's valid usage, and either hands back a pointer or leaves mapped null
MapStaging(ok) ==
    /\ pc = "map"
    /\ IF ok
       THEN /\ mapCount' = mapCount + 1
            /\ outMappedPtr' = "staging"
            /\ outSize' = stagingSize
            /\ pc' = "finish"
            /\ UNCHANGED << result, errVars >>
       ELSE /\ pc' = "idle"
            /\ result' = "throw"
            /\ what' = "map"
            /\ thrown' = TRUE
            /\ UNCHANGED << mapCount, outMappedPtr, outSize >>
    /\ UNCHANGED << calls, currentFrame, inFlightFence, imageAvailable,
                    renderFinished, imageIndex, images, cmd, liveCmds,
                    gpuQueue, presentQueue, canvasLayout, canvas, staging,
                    deviceLost, acq, didSubmit, didPresent, fenceWaits,
                    slotUsed, submitted, signaled >>
    /\ UNCHANGED sizeVars
    /\ pres' = IF ok THEN pres ELSE "none"
    /\ UNCHANGED shutVars
    /\ UNCHANGED t
    /\ UNCHANGED unitVars

\* a renderFrame that returns true without advancing currentFrame
Finish_NoAdvance ==
    /\ pc = "finish"
    /\ liveCmds' = liveCmds \ {calls}
    /\ gpuQueue' = [k \in 1 .. Len(gpuQueue) |->
                      IF gpuQueue[k].frame = calls
                      THEN [gpuQueue[k] EXCEPT !.freed = TRUE]
                      ELSE gpuQueue[k]]
    /\ result' = "true"
    /\ pc' = "idle"
    /\ UNCHANGED << calls, currentFrame, inFlightFence, imageAvailable,
                    renderFinished, imageIndex, images, cmd, presentQueue,
                    canvasLayout, canvas, staging, deviceLost, acq, didSubmit,
                    didPresent, fenceWaits, slotUsed, submitted, signaled,
                    mapCount, outMappedPtr >>
    /\ UNCHANGED << sizeVars, outSize, errVars >>
    /\ pres' = "none"
    /\ UNCHANGED shutVars
    /\ UNCHANGED t
    /\ UNCHANGED unitVars

\* a renderFrame that advances currentFrame without wrapping around
Finish_NoWrap ==
    /\ pc = "finish"
    /\ liveCmds' = liveCmds \ {calls}
    /\ gpuQueue' = [k \in 1 .. Len(gpuQueue) |->
                      IF gpuQueue[k].frame = calls
                      THEN [gpuQueue[k] EXCEPT !.freed = TRUE]
                      ELSE gpuQueue[k]]
    /\ result' = "true"
    /\ pc' = "idle"
    /\ currentFrame' = currentFrame + 1
    /\ UNCHANGED << calls, inFlightFence, imageAvailable,
                    renderFinished, imageIndex, images, cmd, presentQueue,
                    canvasLayout, canvas, staging, deviceLost, acq, didSubmit,
                    didPresent, fenceWaits, slotUsed, submitted, signaled,
                    mapCount, outMappedPtr >>
    /\ UNCHANGED << sizeVars, outSize, errVars >>
    /\ pres' = "none"
    /\ UNCHANGED shutVars
    /\ UNCHANGED t
    /\ UNCHANGED unitVars


\* a renderFrame that returns true without freeing its command buffer
Finish_KeepsCommandBuffer ==
    /\ pc = "finish"
    /\ UNCHANGED << liveCmds, gpuQueue >>
    /\ currentFrame' = (currentFrame + 1) % maxFramesInFlight
    /\ result' = "true"
    /\ pc' = "idle"
    /\ UNCHANGED << calls, inFlightFence, imageAvailable, renderFinished,
                    imageIndex, images, cmd, presentQueue, canvasLayout,
                    canvas, staging, deviceLost, acq, didSubmit, didPresent,
                    fenceWaits, slotUsed, submitted, signaled, mapCount,
                    outMappedPtr >>
    /\ UNCHANGED << sizeVars, outSize, errVars >>
    /\ pres' = "none"
    /\ UNCHANGED shutVars
    /\ UNCHANGED t
    /\ UNCHANGED unitVars

\* vkFreeCommandBuffers, the advance of currentFrame, return true
Finish ==
    /\ pc = "finish"
    /\ liveCmds' = liveCmds \ {calls}
    /\ gpuQueue' = [k \in 1 .. Len(gpuQueue) |->
                      IF gpuQueue[k].frame = calls
                      THEN [gpuQueue[k] EXCEPT !.freed = TRUE]
                      ELSE gpuQueue[k]]
    /\ currentFrame' = (currentFrame + 1) % maxFramesInFlight
    /\ result' = "true"
    /\ pc' = "idle"
    /\ UNCHANGED << calls, inFlightFence, imageAvailable, renderFinished,
                    imageIndex, images, cmd, presentQueue, canvasLayout,
                    canvas, staging, deviceLost, acq, didSubmit, didPresent,
                    fenceWaits, slotUsed, submitted, signaled, mapCount,
                    outMappedPtr >>
    /\ UNCHANGED << sizeVars, outSize, errVars >>
    /\ pres' = "none"
    /\ UNCHANGED shutVars
    /\ UNCHANGED t
    /\ UNCHANGED unitVars

\* ----- the GPU queue ------------------------------------------------------
\* the effect of executing recorded command c of frame f on the GPU state
ExecLayout(c, layout) ==
    IF c.op = "barrier" /\ c.target = "canvas" THEN c.new ELSE layout

ExecCanvas(c, pixels) ==
    IF c.op = "dispatch" THEN c.t ELSE pixels

ExecStaging(c, pixels, bytes) ==
    IF c.op = "copyImageToBuffer" THEN pixels ELSE bytes

\* The queue executes the next command of its oldest submission.  The first
\* command waits for the submission's wait semaphore (imageAvailable of its
\* slot); completing the last one signals renderFinished and the fence that
\* were passed to vkQueueSubmit.
GpuStep ==
    /\ ~deviceLost
    /\ gpuQueue # << >>
    /\ LET sub == Head(gpuQueue)
           k == sub.pos + 1
           c == sub.cmds[k]
       IN  /\ sub.pos = 0 => imageAvailable[sub.waitSemaphores] > 0
           /\ imageAvailable' = IF sub.pos = 0
                                THEN [imageAvailable EXCEPT ![sub.waitSemaphores] = @ - 1]
                                ELSE imageAvailable
           /\ canvasLayout' = ExecLayout(c, canvasLayout)
           /\ canvas' = ExecCanvas(c, canvas)
           /\ staging' = ExecStaging(c, canvas, staging)
           /\ IF k = Len(sub.cmds)
              THEN /\ gpuQueue' = Tail(gpuQueue)
                   /\ inFlightFence' = [inFlightFence EXCEPT ![sub.fence] = TRUE]
                   /\ renderFinished' =
                          [renderFinished EXCEPT ![sub.signalSemaphores] = @ + 1]
                   /\ signaled' = signaled \cup {sub.frame}
              ELSE /\ gpuQueue' = [gpuQueue EXCEPT ![1].pos = k]
                   /\ UNCHANGED << inFlightFence, renderFinished, signaled >>
    /\ UNCHANGED << pc, result, calls, currentFrame, imageIndex, images, cmd,
                    liveCmds, presentQueue, deviceLost, acq, didSubmit,
                    didPresent, fenceWaits, slotUsed, submitted, mapCount,
                    outMappedPtr >>
    /\ UNCHANGED << sizeVars, outSize, errVars >>
    /\ UNCHANGED pres
    /\ UNCHANGED shutVars
    /\ UNCHANGED t
    /\ UNCHANGED unitVars

\* vkFreeCommandBuffers on a command buffer whose submission is still pending
\* is outside the API's valid usage: the queue may go on executing it
\* (GpuStep) or, reading freed memory, lose the device.
GpuLose ==
    /\ ~deviceLost
    /\ gpuQueue # << >>
    /\ Head(gpuQueue).freed
    /\ deviceLost' = TRUE
    /\ UNCHANGED << pc, result, calls, currentFrame, inFlightFence,
                    imageAvailable, renderFinished, imageIndex, images, cmd,
                    liveCmds, gpuQueue, presentQueue, canvasLayout, canvas,
                    staging, acq, didSubmit, didPresent, fenceWaits, slotUsed,
                    submitted, signaled, mapCount, outMappedPtr >>
    /\ UNCHANGED << sizeVars, outSize, errVars >>
    /\ UNCHANGED pres
    /\ UNCHANGED shutVars
    /\ UNCHANGED t
    /\ UNCHANGED unitVars

\* The presentation engine processes the oldest present request: it waits for
\* the request's semaphore (renderFinished of its slot) and takes the image back.
PresentEngine ==
    /\ presentQueue # << >>
    /\ LET p == Head(presentQueue)
       IN  /\ renderFinished[p.waitSemaphores] > 0
           /\ renderFinished' = [renderFinished EXCEPT ![p.waitSemaphores] = @ - 1]
           /\ images' = [images EXCEPT ![p.image] = "free"]
           /\ presentQueue' = Tail(presentQueue)
    /\ UNCHANGED << pc, result, calls, currentFrame, inFlightFence,
                    imageAvailable, imageIndex, cmd, liveCmds, gpuQueue,
                    canvasLayout, canvas, staging, deviceLost, acq, didSubmit,
                    didPresent, fenceWaits, slotUsed, submitted, signaled,
                    mapCount, outMappedPtr >>
    /\ UNCHANGED << sizeVars, outSize, errVars >>
    /\ UNCHANGED pres
    /\ UNCHANGED shutVars
    /\ UNCHANGED t
    /\ UNCHANGED unitVars

\* ----- shutdown -----------------------------------------------------------
\* One entry of destroyLog: the member destroyed and its index in its vector
\* (0 for a member that is not in a vector).
Res(name, i) == << name, i >>

RendererResources ==
    {Res("vkUnmapMemory", 0), Res("stagingBuffer", 0), Res("stagingMemory", 0)}
    \cup { Res(n, s) : n \in {"imageAvailable", "renderFinished", "inFlightFence"},
                       s \in Slots }

ComputeResources ==
    { Res(n, 0) : n \in {"pipeline", "layout", "descPool", "descLayout",
                         "storageView", "storageImage", "storageMemory"} }

ContextResources ==
    { Res("swapchainImageViews", i) : i \in Images }
    \cup { Res(n, 0) : n \in {"swapchain", "cmdPool", "device", "surface",
                              "instance"} }

Resources == RendererResources \cup ComputeResources \cup ContextResources

\* number of times a resource has been destroyed
Owner(r) ==
    IF r \in RendererResources THEN "Renderer"
    ELSE IF r \in ComputeResources THEN "ComputePipeline"
    ELSE "VulkanContext"

Destroyed(r) ==
    LET log == destroyLog[Owner(r)]
    IN  Cardinality({ k \in 1 .. Len(log) : log[k] = r })

\* where the caller is between renderFrame calls
CleanupPoints == {"start", "compute_ready", "idle", "shutdown"}

\* everything a cleanup function leaves alone
frameVars == << result, calls, currentFrame, inFlightFence, imageAvailable,
                renderFinished, imageIndex, images, cmd, liveCmds, gpuQueue,
                presentQueue, canvasLayout, canvas, staging, deviceLost, acq,
                didSubmit, didPresent, fenceWaits, slotUsed, submitted,
                signaled, outMappedPtr, sizeVars, outSize, errVars, pres, t >>

\* the loop over frames in Renderer::cleanup, slots s .. maxFramesInFlight - 1
RECURSIVE FramesDestroyed(_)
FramesDestroyed(s) ==
    IF s >= maxFramesInFlight THEN << >>
    ELSE (IF s \in frameObjects
          THEN << Res("imageAvailable", s), Res("renderFinished", s),
                  Res("inFlightFence", s) >>
          ELSE << >>) \o FramesDestroyed(s + 1)

\* Renderer::cleanup: unmaps and destroys the staging buffer when
\* stagingMemory is not null, then every slot's non-null semaphores and fence;
\* it resets no member and waits for nothing.
RendererCleanup ==
    /\ pc \in CleanupPoints
    /\ Len(cleanups["Renderer"]) < MaxCleanups
    /\ cleanups' = [cleanups EXCEPT !["Renderer"] = Append(@, stagingMemory)]
    /\ destroyLog' = [destroyLog EXCEPT !["Renderer"] = @
          \o (IF stagingMemory
              THEN << Res("vkUnmapMemory", 0), Res("stagingBuffer", 0),
                      Res("stagingMemory", 0) >>
              ELSE << >>)
          \o FramesDestroyed(0) ]
    /\ mapCount' = IF stagingMemory THEN 0 ELSE mapCount
    /\ pc' = IF stagingMemory THEN "shutdown" ELSE pc
    /\ UNCHANGED << frameVars, computeDevice, ctxHandles, rendererHandles >>
    /\ UNCHANGED unitVars

\* a cleanup that leaves ComputePipeline::device set
ComputeCleanup_KeepsDevice ==
    /\ pc \in CleanupPoints
    /\ Len(cleanups["ComputePipeline"]) < MaxCleanups
    /\ cleanups' = [cleanups EXCEPT !["ComputePipeline"] = Append(@, width # 0)]
    /\ destroyLog' = [destroyLog EXCEPT !["ComputePipeline"] = @
          \o (IF computeDevice
              THEN << Res("pipeline", 0), Res("layout", 0), Res("descPool", 0),
                      Res("descLayout", 0), Res("storageView", 0),
                      Res("storageImage", 0), Res("storageMemory", 0) >>
              ELSE << >>) ]
    /\ pc' = IF computeDevice THEN "shutdown" ELSE pc
    /\ UNCHANGED << frameVars, mapCount, computeDevice, ctxHandles,
                    rendererHandles >>
    /\ UNCHANGED unitVars


\* a cleanup that frees the canvas memory before the image and its view
ComputeCleanup_MemoryFirst ==
    /\ pc \in CleanupPoints
    /\ Len(cleanups["ComputePipeline"]) < MaxCleanups
    /\ cleanups' = [cleanups EXCEPT !["ComputePipeline"] = Append(@, width # 0)]
    /\ destroyLog' = [destroyLog EXCEPT !["ComputePipeline"] = @
          \o (IF computeDevice
              THEN << Res("pipeline", 0), Res("layout", 0), Res("descPool", 0),
                      Res("descLayout", 0), Res("storageMemory", 0),
                      Res("storageImage", 0), Res("storageView", 0) >>
              ELSE << >>) ]
    /\ computeDevice' = FALSE
    /\ pc' = IF computeDevice THEN "shutdown" ELSE pc
    /\ UNCHANGED << frameVars, mapCount, ctxHandles, rendererHandles >>
    /\ UNCHANGED unitVars

\* ComputePipeline::cleanup: returns at once when device is null; otherwise
\* destroys the seven members (all non-null after init) and nulls device.
ComputeCleanup ==
    /\ pc \in CleanupPoints
    /\ Len(cleanups["ComputePipeline"]) < MaxCleanups
    /\ cleanups' = [cleanups EXCEPT !["ComputePipeline"] = Append(@, width # 0)]
    /\ destroyLog' = [destroyLog EXCEPT !["ComputePipeline"] = @
          \o (IF computeDevice
              THEN << Res("pipeline", 0), Res("layout", 0), Res("descPool", 0),
                      Res("descLayout", 0), Res("storageView", 0),
                      Res("storageImage", 0), Res("storageMemory", 0) >>
              ELSE << >>) ]
    /\ computeDevice' = FALSE
    /\ pc' = IF computeDevice THEN "shutdown" ELSE pc
    /\ UNCHANGED << frameVars, mapCount, ctxHandles, rendererHandles >>
    /\ UNCHANGED unitVars

\* the loop over swapchainImageViews in VulkanContext::cleanup
RECURSIVE ImageViewsDestroyed(_)
ImageViewsDestroyed(i) ==
    IF i >= NumImages THEN << >>
    ELSE << Res("swapchainImageViews", i) >> \o ImageViewsDestroyed(i + 1)

\* VulkanContext::cleanup, also run by ~VulkanContext: with a non-null device
\* destroys image views, swapchain, command pool and device and nulls device;
\* then destroys surface and instance when non-null, and nulls neither.
ContextCleanup ==
    /\ pc \in CleanupPoints
    /\ Len(cleanups["VulkanContext"]) < MaxCleanups
    /\ cleanups' = [cleanups EXCEPT !["VulkanContext"] = Append(@, TRUE)]
    /\ destroyLog' = [destroyLog EXCEPT !["VulkanContext"] = @
          \o (IF ctxDevice
              THEN ImageViewsDestroyed(0)
                   \o << Res("swapchain", 0), Res("cmdPool", 0),
                         Res("device", 0) >>
              ELSE << >>)
          \o (IF surface THEN << Res("surface", 0) >> ELSE << >>)
          \o (IF instance THEN << Res("instance", 0) >> ELSE << >>) ]
    /\ ctxDevice' = FALSE
    /\ pc' = "shutdown"
    /\ UNCHANGED << frameVars, mapCount, computeDevice, surface, instance,
                    rendererHandles >>
    /\ UNCHANGED unitVars

\* ----- canvas sizes of the dispatch ---------------------------------------
MaxCanvas == 33        \* largest canvas dimension of DispatchSpec

CanvasSizes == { Extent(w, h) : w \in 1 .. MaxCanvas, h \in 1 .. MaxCanvas }

\* every canvas size of the bounds; the first frame is recorded
DispatchInit == InitSized(CanvasSizes, {Extent(UINT32_MAX, UINT32_MAX)})

DispatchNext ==
    \/ ComputeInit(TRUE)
    \/ RendererInit
    \/ Call(calls + 1)
    \/ WaitFence
    \/ Acquire("SUCCESS")
    \/ Record

DispatchSpec == DispatchInit /\ [][DispatchNext]_vars

\* ----- time values chosen by the caller -----------------------------------
MaxTime == 1           \* largest time value t passed to renderFrame

Times == 0 .. MaxTime

\* successful frames whose time value the caller chooses freely
TimeNext ==
    \/ ComputeInit(TRUE)
    \/ RendererInit
    \/ \E tv \in Times : Call(tv)
    \/ WaitFence
    \/ Acquire("SUCCESS")
    \/ Record
    \/ Submit(TRUE)
    \/ Present("SUCCESS")
    \/ MapStaging(TRUE)
    \/ Finish
    \/ GpuStep
    \/ PresentEngine

TimeSpec == Init /\ [][TimeNext]_vars

\* ----- VulkanContext::findMemoryType --------------------------------------
MaxTypes == 3          \* largest memProps.memoryTypeCount
FlagBits == 2          \* bits of a VkMemoryPropertyFlags value

TypeFilters == 0 .. (2 ^ MaxTypes - 1)
PropertyFlags == 0 .. (2 ^ FlagBits - 1)

\* a & b on unsigned integers
RECURSIVE BitAnd(_, _)
BitAnd(a, b) ==
    IF a = 0 \/ b = 0 THEN 0
    ELSE (a % 2) * (b % 2) + 2 * BitAnd(a \div 2, b \div 2)

\* a mask that tests every bit of props only once one of them is set
RECURSIVE findMemoryType_AnyBit(_)
findMemoryType_AnyBit(i) ==
    IF i >= Len(memProps) THEN [kind |-> "throw", index |-> 0]
    ELSE IF /\ BitAnd(typeFilter, 2 ^ i) # 0
            /\ (props = 0 \/ BitAnd(memProps[i + 1], props) # 0)
         THEN [kind |-> "return", index |-> i]
         ELSE findMemoryType_AnyBit(i + 1)

\* the loop of findMemoryType from index i on: the first i with
\* (typeFilter & (1u << i)) && (propertyFlags & props) == props is returned,
\* and the function throws when the loop ends
RECURSIVE findMemoryType(_)
findMemoryType(i) ==
    IF i >= Len(memProps) THEN [kind |-> "throw", index |-> 0]
    ELSE IF /\ BitAnd(typeFilter, 2 ^ i) # 0
            /\ BitAnd(memProps[i + 1], props) = props
         THEN [kind |-> "return", index |-> i]
         ELSE findMemoryType(i + 1)

\* one call of findMemoryType(typeFilter, props)
CallFindMemoryType ==
    /\ memState = "idle"
    /\ LET r == findMemoryType(0)
       IN  /\ memState' = IF r.kind = "return" THEN "returned" ELSE "thrown"
           /\ memResult' = r.index
    /\ UNCHANGED << typeFilter, props, memProps, rendererVars, writerVars,
                    oneShotVars >>

\* every argument pair and every table of memory types of the bounds
MemInit ==
    /\ RendererStart({Extent(MaxDim, MaxDim)}, {Extent(UINT32_MAX, UINT32_MAX)})
    /\ WriterClosed
    /\ OneShotIdle
    /\ typeFilter \in TypeFilters
    /\ props \in PropertyFlags
    /\ memProps \in UNION { [1 .. n -> PropertyFlags] : n \in 0 .. MaxTypes }
    /\ memState = "idle"
    /\ memResult = 0

MemNext == CallFindMemoryType

MemSpec == MemInit /\ [][MemNext]_vars

\* ----- VideoWriter --------------------------------------------------------
MaxWriterCalls == 2    \* calls of each VideoWriter function
MaxBytes == 2          \* largest frame handed to writeFrameRGBA, in bytes

Bytes == {0, 1}
Frames == UNION { [1 .. n -> Bytes] : n \in 1 .. MaxBytes }

\* the call counter of VideoWriter function f
Called(f) == [writerCalls EXCEPT ![f] = @ + 1]

\* VideoWriter::open on a closed writer: popen starts ffmpeg with a pipe to its
\* standard input, or fails and open throws
WriterOpen(ok) ==
    /\ ~ffmpeg
    /\ writerCalls["open"] < MaxWriterCalls
    /\ writerCalls' = Called("open")
    /\ ffmpeg' = ok
    /\ openFailed' = (openFailed \/ ~ok)
    /\ stream' = << >>
    /\ passed' = << >>
    /\ UNCHANGED << warnings, pcloses, rendererVars, memVars,
                    oneShotVars >>

\* a writer that gives up the pipe after a short write
WriteFrameRGBA_ClosesOnShort(rgbaData, accepted) ==
    /\ writerCalls["writeFrameRGBA"] < MaxWriterCalls
    /\ writerCalls' = Called("writeFrameRGBA")
    /\ accepted \in 0 .. Len(rgbaData)
    /\ IF ~ffmpeg
       THEN UNCHANGED << ffmpeg, stream, passed, warnings >>
       ELSE /\ stream' = stream \o SubSeq(rgbaData, 1, accepted)
            /\ passed' = Append(passed, [data |-> rgbaData, wrote |-> accepted])
            /\ warnings' = IF accepted # Len(rgbaData) THEN warnings + 1
                           ELSE warnings
            /\ ffmpeg' = (accepted = Len(rgbaData))
    /\ UNCHANGED << pcloses, openFailed, rendererVars, memVars,
                    oneShotVars >>

\* a writer that puts the frame's length in front of its bytes
WriteFrameRGBA_WithHeader(rgbaData, accepted) ==
    /\ writerCalls["writeFrameRGBA"] < MaxWriterCalls
    /\ writerCalls' = Called("writeFrameRGBA")
    /\ accepted \in 0 .. Len(rgbaData)
    /\ IF ~ffmpeg
       THEN UNCHANGED << stream, passed, warnings >>
       ELSE /\ stream' = stream \o << Len(rgbaData) >>
                            \o SubSeq(rgbaData, 1, accepted)
            /\ passed' = Append(passed, [data |-> rgbaData, wrote |-> accepted])
            /\ warnings' = IF accepted # Len(rgbaData) THEN warnings + 1
                           ELSE warnings
    /\ UNCHANGED << ffmpeg, pcloses, openFailed, rendererVars, memVars,
                    oneShotVars >>

\* VideoWriter::writeFrameRGBA(rgbaData, bytes): nothing without a pipe;
\* otherwise one fwrite of the bytes, of which the stream accepts the first
\* `accepted`, and a warning when that is not all of them
WriteFrameRGBA(rgbaData, accepted) ==
    /\ writerCalls["writeFrameRGBA"] < MaxWriterCalls
    /\ writerCalls' = Called("writeFrameRGBA")
    /\ accepted \in 0 .. Len(rgbaData)
    /\ IF ~ffmpeg
       THEN UNCHANGED << stream, passed, warnings >>
       ELSE /\ stream' = stream \o SubSeq(rgbaData, 1, accepted)
            /\ passed' = Append(passed, [data |-> rgbaData, wrote |-> accepted])
            /\ warnings' = IF accepted # Len(rgbaData) THEN warnings + 1
                           ELSE warnings
    /\ UNCHANGED << ffmpeg, pcloses, openFailed, rendererVars, memVars,
                    oneShotVars >>


\* a close that calls pclose whether or not there is a pipe
WriterClose_Unguarded ==
    /\ writerCalls["close"] < MaxWriterCalls
    /\ writerCalls' = Called("close")
    /\ pcloses' = pcloses + 1
    /\ ffmpeg' = FALSE
    /\ UNCHANGED << stream, passed, warnings, openFailed, rendererVars,
                    memVars, oneShotVars >>
\* VideoWriter::close: flushes and closes the pipe when there is one
WriterClose ==
    /\ writerCalls["close"] < MaxWriterCalls
    /\ writerCalls' = Called("close")
    /\ pcloses' = IF ffmpeg THEN pcloses + 1 ELSE pcloses
    /\ ffmpeg' = FALSE
    /\ UNCHANGED << stream, passed, warnings, openFailed, rendererVars,
                    memVars, oneShotVars >>

WriterInit ==
    /\ RendererStart({Extent(MaxDim, MaxDim)}, {Extent(UINT32_MAX, UINT32_MAX)})
    /\ MemIdle
    /\ WriterClosed
    /\ OneShotIdle

WriterNext ==
    \/ \E ok \in BOOLEAN : WriterOpen(ok)
    \/ \E rgbaData \in Frames, accepted \in 0 .. MaxBytes :
          WriteFrameRGBA(rgbaData, accepted)
    \/ WriterClose

WriterSpec == WriterInit /\ [][WriterNext]_vars

\* ----- VulkanContext::begin/endSingleTimeCommands -------------------------
MaxOneShots == 3       \* uses of the one-shot helper explored
MaxOneShotCmds == 4    \* commands recorded into one one-shot command buffer

\* beginSingleTimeCommands: allocates a command buffer and begins recording
beginSingleTimeCommands ==
    /\ oneShotPc = "idle"
    /\ oneShots < MaxOneShots
    /\ oneShots' = oneShots + 1
    /\ oneShotPc' = "recording"
    /\ oneShotCmd' = TRUE
    /\ recorded' = 0
    /\ oneShotLog' = << >>
    /\ UNCHANGED << queueLeft, rendererVars, memVars, writerVars >>

\* the caller records a command between begin and end
OneShotRecord ==
    /\ oneShotPc = "recording"
    /\ recorded < MaxOneShotCmds
    /\ recorded' = recorded + 1
    /\ UNCHANGED << oneShotPc, oneShotCmd, queueLeft, oneShotLog, oneShots,
                    rendererVars, memVars, writerVars >>

\* endSingleTimeCommands, first call: vkEndCommandBuffer
EndCommandBuffer ==
    /\ oneShotPc = "recording"
    /\ oneShotPc' = "ended"
    /\ oneShotLog' = Append(oneShotLog, "vkEndCommandBuffer")
    /\ UNCHANGED << oneShotCmd, recorded, queueLeft, oneShots, rendererVars,
                    memVars, writerVars >>

\* vkQueueSubmit without a fence; its result is not looked at, so a failed
\* submission leaves nothing on the queue and the function goes on
OneShotSubmit(ok) ==
    /\ oneShotPc = "ended"
    /\ oneShotPc' = "submitted"
    /\ queueLeft' = IF ok THEN recorded ELSE 0
    /\ oneShotLog' = Append(oneShotLog, "vkQueueSubmit")
    /\ UNCHANGED << oneShotCmd, recorded, oneShots, rendererVars, memVars,
                    writerVars >>

\* the queue executes the next command of the one-shot submission
OneShotQueueStep ==
    /\ queueLeft > 0
    /\ queueLeft' = queueLeft - 1
    /\ UNCHANGED << oneShotPc, oneShotCmd, recorded, oneShotLog, oneShots,
                    rendererVars, memVars, writerVars >>

\* an endSingleTimeCommands that goes on without waiting for the queue
QueueWaitIdle_NoWait ==
    /\ oneShotPc = "submitted"
    /\ oneShotPc' = "drained"
    /\ oneShotLog' = Append(oneShotLog, "vkQueueWaitIdle")
    /\ UNCHANGED << oneShotCmd, recorded, queueLeft, oneShots, rendererVars,
                    memVars, writerVars >>

\* vkQueueWaitIdle: returns once the queue has nothing left to execute
QueueWaitIdle ==
    /\ oneShotPc = "submitted"
    /\ queueLeft = 0
    /\ oneShotPc' = "drained"
    /\ oneShotLog' = Append(oneShotLog, "vkQueueWaitIdle")
    /\ UNCHANGED << oneShotCmd, recorded, queueLeft, oneShots, rendererVars,
                    memVars, writerVars >>

\* vkFreeCommandBuffers, after which endSingleTimeCommands returns
FreeCommandBuffers ==
    /\ oneShotPc = "drained"
    /\ oneShotPc' = "idle"
    /\ oneShotCmd' = FALSE
    /\ oneShotLog' = Append(oneShotLog, "vkFreeCommandBuffers")
    /\ UNCHANGED << recorded, queueLeft, oneShots, rendererVars, memVars,
                    writerVars >>

OneShotInit ==
    /\ RendererStart({Extent(MaxDim, MaxDim)}, {Extent(UINT32_MAX, UINT32_MAX)})
    /\ MemIdle
    /\ WriterClosed
    /\ OneShotIdle

OneShotNext ==
    \/ beginSingleTimeCommands
    \/ OneShotRecord
    \/ EndCommandBuffer
    \/ \E ok \in BOOLEAN : OneShotSubmit(ok)
    \/ OneShotQueueStep
    \/ QueueWaitIdle
    \/ FreeCommandBuffers

OneShotSpec == OneShotInit /\ [][OneShotNext]_vars

\* ----- specifications -----------------------------------------------------
Next ==
    \/ \E ok \in BOOLEAN : ComputeInit(ok)
    \/ RendererInit
    \/ Call(calls + 1)
    \/ WaitFence
    \/ \E r \in AcquireResults : Acquire(r)
    \/ Record
    \/ \E ok \in BOOLEAN : Submit(ok)
    \/ \E r \in PresentResults : Present(r)
    \/ \E ok \in BOOLEAN : MapStaging(ok)
    \/ Finish
    \/ GpuStep
    \/ GpuLose
    \/ PresentEngine

Spec == Init /\ [][Next]_vars

TypeOK ==
    /\ pc \in {"start", "compute_ready", "idle", "wait", "acquire", "record",
               "submit", "present", "map", "finish", "shutdown"}
    /\ result \in {"none", "true", "false", "throw"}
    /\ calls \in 0 .. MaxCalls
    /\ currentFrame \in Slots
    /\ inFlightFence \in [Slots -> BOOLEAN]
    /\ imageAvailable \in [Slots -> 0 .. MaxCalls]
    /\ renderFinished \in [Slots -> 0 .. MaxCalls]
    /\ imageIndex \in Images
    /\ images \in [Images -> {"free", "acquired", "queued"}]
    /\ liveCmds \subseteq 1 .. MaxCalls
    /\ canvasLayout \in {"UNDEFINED", "GENERAL", "TRANSFER_SRC"}
    /\ canvas \in 0 .. MaxCalls
    /\ staging \in 0 .. MaxCalls
    /\ deviceLost \in BOOLEAN
    /\ ctxWidth \in 1 .. MaxDim
    /\ ctxHeight \in 1 .. MaxDim
    /\ width \in 0 .. MaxDim
    /\ height \in 0 .. MaxDim
    /\ stagingSize \in 0 .. (MaxDim * MaxDim * 4)
    /\ outSize \in 0 .. (MaxDim * MaxDim * 4)
    /\ what \in {"none", "acquire", "submit", "present", "map"}
    /\ thrown \in BOOLEAN
    /\ pres \in PresentResults \cup {"none"}
    /\ computeDevice \in BOOLEAN
    /\ ctxDevice \in BOOLEAN
    /\ surface \in BOOLEAN
    /\ instance \in BOOLEAN
    /\ stagingMemory \in BOOLEAN
    /\ frameObjects \subseteq Slots
    /\ \A o \in Objects :
          \A k \in 1 .. Len(destroyLog[o]) : destroyLog[o][k] \in Resources
    /\ t \in 0 .. MaxCalls
    /\ typeFilter \in TypeFilters
    /\ props \in PropertyFlags
    /\ Len(memProps) <= MaxTypes
    /\ \A k \in 1 .. Len(memProps) : memProps[k] \in PropertyFlags
    /\ memState \in {"idle", "returned", "thrown"}
    /\ memResult \in 0 .. MaxTypes
    /\ ffmpeg \in BOOLEAN
    /\ openFailed \in BOOLEAN
    /\ \A k \in 1 .. Len(stream) : stream[k] \in Bytes
    /\ \A k \in 1 .. Len(passed) :
          passed[k].data \in Frames /\ passed[k].wrote \in 0 .. Len(passed[k].data)
    /\ warnings \in 0 .. MaxWriterCalls
    /\ pcloses \in 0 .. MaxWriterCalls
    /\ \A f \in DOMAIN writerCalls : writerCalls[f] \in 0 .. MaxWriterCalls
    /\ oneShotPc \in {"idle", "recording", "ended", "submitted", "drained"}
    /\ oneShotCmd \in BOOLEAN
    /\ recorded \in 0 .. MaxOneShotCmds
    /\ queueLeft \in 0 .. MaxOneShotCmds
    /\ Len(oneShotLog) <= 4
    /\ oneShots \in 0 .. MaxOneShots
    /\ \A o \in Objects :
          /\ Len(cleanups[o]) <= MaxCleanups
          /\ \A k \in 1 .. Len(cleanups[o]) : cleanups[o][k] \in BOOLEAN

\* The caller and the devices of the liveness claims: ComputePipeline::init
\* succeeds, an acquisition may report a stale surface unless the previous
\* call already returned false, every submission, present and map succeeds,
\* and the device is never lost.
LiveAcquireResults ==
    IF result = "false" THEN {"SUCCESS", "SUBOPTIMAL"}
    ELSE {"SUCCESS", "SUBOPTIMAL", "OUT_OF_DATE"}

RenderStep ==
    \/ WaitFence
    \/ \E r \in LiveAcquireResults : Acquire(r)
    \/ Record
    \/ Submit(TRUE)
    \/ \E r \in {"SUCCESS", "SUBOPTIMAL"} : Present(r)
    \/ MapStaging(TRUE)
    \/ Finish

LiveNext ==
    \/ ComputeInit(TRUE)
    \/ RendererInit
    \/ Call(calls + 1)
    \/ RenderStep
    \/ GpuStep
    \/ PresentEngine

\* the CPU thread inside renderFrame keeps running, the queue keeps executing
\* what it can, the presentation engine keeps processing what it can
LiveSpec ==
    /\ Init
    /\ [][LiveNext]_vars
    /\ WF_vars(RenderStep)
    /\ WF_vars(GpuStep)
    /\ WF_vars(PresentEngine)

\* frames in which every Vulkan call succeeds
GoodFrame ==
    \/ Call(calls + 1)
    \/ WaitFence
    \/ Acquire("SUCCESS")
    \/ Record
    \/ Submit(TRUE)
    \/ Present("SUCCESS")
    \/ MapStaging(TRUE)
    \/ Finish

\* set-up and successful frames, ended by the cleanup functions called at any
\* point between two renderFrame calls, in any order, while the queue and the
\* presentation engine go on
ShutdownNext ==
    \/ ComputeInit(TRUE)
    \/ RendererInit
    \/ GoodFrame
    \/ GpuStep
    \/ PresentEngine
    \/ RendererCleanup
    \/ ComputeCleanup
    \/ ContextCleanup

ShutdownSpec == Init /\ [][ShutdownNext]_vars

\* the frame loop of LiveSpec for every window size and surface extent
SizeSpec == SizeInit /\ [][LiveNext]_vars

\* The environment in which every acquisition, submission and present succeeds
\* and the queue completes what is submitted.  vkMapMemory on the memory init
\* left mapped may hand back a pointer or leave mapped null.
SuccessStep ==
    \/ WaitFence
    \/ \E r \in {"SUCCESS", "SUBOPTIMAL"} : Acquire(r)
    \/ Record
    \/ Submit(TRUE)
    \/ \E r \in {"SUCCESS", "SUBOPTIMAL"} : Present(r)
    \/ \E ok \in BOOLEAN : MapStaging(ok)
    \/ Finish

SuccessNext ==
    \/ ComputeInit(TRUE)
    \/ RendererInit
    \/ Call(calls + 1)
    \/ SuccessStep
    \/ GpuStep
    \/ PresentEngine

\* the CPU thread inside renderFrame keeps running, the queue and the
\* presentation engine keep processing what they can
SuccessSpec ==
    /\ Init
    /\ [][SuccessNext]_vars
    /\ WF_vars(SuccessStep)
    /\ WF_vars(GpuStep)
    /\ WF_vars(PresentEngine)

\* ----- claims -------------------------------------------------------------
Outstanding == submitted \ signaled

\* C1: the number of queue submissions whose fence the GPU has not yet
\* signaled never exceeds maxFramesInFlight.
C1_OutstandingBounded ==
    Cardinality(Outstanding) <= maxFramesInFlight

\* maxFramesInFlight submissions are outstanding after a slot was reused
C1_Witness ==
    /\ Cardinality(Outstanding) = maxFramesInFlight
    /\ Cardinality(submitted) > maxFramesInFlight

\* C2: when all frames up to n + maxFramesInFlight were submitted, frame
\* n + maxFramesInFlight is submitted only after the fence of frame n's
\* submission was signaled.
C2_SubmitAfterFence ==
    \A f \in submitted :
        (f > maxFramesInFlight /\ (1 .. f) \subseteq submitted)
            => (f - maxFramesInFlight) \in signaled

\* frame 3 is submitted, after frames 1 and 2, while frame 2 is still outstanding
C2_Witness ==
    /\ (1 .. (maxFramesInFlight + 1)) \subseteq submitted
    /\ maxFramesInFlight \notin signaled
    /\ 1 \in signaled

\* C3: a queue submission that reuses a slot finds that slot's fence waited
\* on and reset exactly once since the slot's previous submission.
C3_FenceWaitedOnce ==
    [][ \A s \in Slots :
          (slotUsed[s] /\ currentFrame = s /\ submitted' # submitted)
              => fenceWaits[s] = 1 ]_vars

\* a slot was submitted for the second time
C3_Witness ==
    /\ pc = "present"
    /\ Cardinality(submitted) > maxFramesInFlight
    /\ fenceWaits[currentFrame] = 0

\* C4: the call that follows a stale return (pc = "wait" with the previous
\* result false) eventually returns true, given successful acquisition and a
\* GPU that completes every submission.
C4_RecoversAfterStale ==
    (pc = "wait" /\ result = "false") ~> (pc = "idle" /\ result = "true")

C6_StaleAbandonsFrame ==
    acq = "OUT_OF_DATE" =>
        /\ pc = "idle"
        /\ result = "false"
        /\ ~didSubmit
        /\ ~didPresent
        /\ \A k \in 1 .. Len(gpuQueue) : gpuQueue[k].frame # calls
        /\ calls \notin submitted

\* a stale acquisition after an earlier frame was submitted
C6_Witness ==
    /\ acq = "OUT_OF_DATE"
    /\ calls > 1
    /\ submitted # {}

\* the queue is inside a frame, after its second and before its seventh command
InsideTransfer ==
    /\ gpuQueue # << >>
    /\ Head(gpuQueue).pos \in 2 .. 6

\* C7: once ComputePipeline::init has run the canvas is in GENERAL layout,
\* except between the second and the seventh command of a frame, where it is
\* TRANSFER_SRC; so it is GENERAL at the end of every frame's command buffer.
C7_CanvasGeneral ==
    pc # "start" =>
        IF InsideTransfer THEN canvasLayout = "TRANSFER_SRC"
        ELSE canvasLayout = "GENERAL"

\* the per-frame part of C7 alone: whatever init left, a frame's commands
\* leave the canvas TRANSFER_SRC inside the transfer part and GENERAL after it
CanvasLayoutPerFrame ==
    (pc # "start" /\ canvasLayout # "UNDEFINED") =>
        IF InsideTransfer THEN canvasLayout = "TRANSFER_SRC"
        ELSE canvasLayout = "GENERAL"

\* C8: when renderFrame has returned true the staging buffer holds the
\* pixels of the frame of that call.
C8_StagingHoldsFrame ==
    (pc = "idle" /\ result = "true") => staging = calls

\* C9: between a successful return and the next call no GPU copy writes the
\* staging buffer.
C9_NoWriteWhileCallerReads ==
    [][ (pc = "idle" /\ result = "true") => staging' = staging ]_vars

WritesStaging(sub) ==
    \E j \in 1 .. Len(sub.cmds) : sub.cmds[j].op = "copyImageToBuffer"

\* C10: at most one submitted and not yet completed command buffer contains a
\* copy into the staging buffer.
C10_OneStagingWriter ==
    Cardinality({k \in 1 .. Len(gpuQueue) : WritesStaging(gpuQueue[k])}) <= 1

\* C11: the staging size computed by Renderer::init, and the length every
\* successful renderFrame call returns, is width * height * 4 for the
\* dimensions width, height of the canvas ComputePipeline::init created.
C11_StagingSizeIsCanvasSize ==
    /\ pc \notin {"start", "compute_ready"} => stagingSize = width * height * 4
    /\ (pc = "idle" /\ result = "true") => outSize = width * height * 4

\* what holds of the size instead: it is that of the swapchain extent, fixed
\* by Renderer::init and handed out unchanged by every successful call
StagingSizeIsExtentSize ==
    /\ pc \notin {"start", "compute_ready"}
          => stagingSize = swapchainExtent.width * swapchainExtent.height * 4
    /\ (pc = "idle" /\ result = "true") => outSize = stagingSize

\* C12: a frame's command buffer is freed only after the GPU has completed
\* the submission that executes it.
C12_FreedAfterCompletion ==
    \A k \in 1 .. Len(gpuQueue) : ~gpuQueue[k].freed

\* C13: the command buffer of every submission holds exactly the seven
\* commands, in this order: dispatch, canvas GENERAL -> TRANSFER_SRC,
\* presentation image UNDEFINED -> TRANSFER_DST, copy canvas -> presentation
\* image, copy canvas -> staging, presentation image TRANSFER_DST -> PRESENT,
\* canvas TRANSFER_SRC -> GENERAL.
C13_CommandOrder ==
    \A k \in 1 .. Len(gpuQueue) :
        LET c == gpuQueue[k].cmds
        IN  /\ Len(c) = 7
            /\ c[1].op = "dispatch"
            /\ c[2].op = "barrier" /\ c[2].target = "canvas"
                 /\ c[2].old = "GENERAL" /\ c[2].new = "TRANSFER_SRC"
            /\ c[3].op = "barrier" /\ c[3].target = "swapchain"
                 /\ c[3].old = "UNDEFINED" /\ c[3].new = "TRANSFER_DST"
            /\ c[4].op = "copyImage" /\ c[4].target = "swapchain"
            /\ c[5].op = "copyImageToBuffer" /\ c[5].target = "staging"
            /\ c[6].op = "barrier" /\ c[6].target = "swapchain"
                 /\ c[6].old = "TRANSFER_DST" /\ c[6].new = "PRESENT_SRC"
            /\ c[7].op = "barrier" /\ c[7].target = "canvas"
                 /\ c[7].old = "TRANSFER_SRC" /\ c[7].new = "GENERAL"

\* two recorded frames are pending, the second one of a later call
C13_Witness ==
    /\ Len(gpuQueue) = 2
    /\ gpuQueue[2].frame > 2

\* the semaphores and the fence of every pending submission and every pending
\* present request are those of the slot the frame uses
SemaphoresOfSlot ==
    /\ \A k \in 1 .. Len(gpuQueue) :
          /\ gpuQueue[k].waitSemaphores = gpuQueue[k].slot
          /\ gpuQueue[k].signalSemaphores = gpuQueue[k].slot
          /\ gpuQueue[k].fence = gpuQueue[k].slot
    /\ \A k \in 1 .. Len(presentQueue) :
          presentQueue[k].waitSemaphores = presentQueue[k].slot

\* the queue starts a frame's commands after the frame's image was acquired,
\* and the presentation engine takes a frame's image after the queue has
\* completed the frame's commands
TimelineStep ==
    /\ (gpuQueue # << >> /\ Head(gpuQueue).pos = 0 /\ gpuQueue' # gpuQueue
          /\ ~deviceLost')
          => images[Head(gpuQueue).image] \in {"acquired", "queued"}
    /\ (presentQueue # << >> /\ presentQueue' = Tail(presentQueue))
          => Head(presentQueue).frame \in signaled

\* C14: a frame submitted on slot s waits on s's available semaphore, signals
\* s's finished semaphore and s's fence, its present request waits on s's
\* finished semaphore; on the GPU timeline acquisition precedes the execution
\* of the frame's commands, which precedes the presentation of the image.
C14_AcquireExecutePresent ==
    [][SemaphoresOfSlot /\ SemaphoresOfSlot' /\ TimelineStep]_vars

\* the same chain for the frames of a renderer none of whose calls has raised
\* an error
C14_ChainWithoutError ==
    [][~thrown' => (SemaphoresOfSlot /\ SemaphoresOfSlot' /\ TimelineStep)]_vars

\* the present results renderFrame logs and goes on from
NonFatalPresent == {"OUT_OF_DATE", "SUBOPTIMAL"}

\* C15: a present request that returns out-of-date or suboptimal raises no
\* error: the call returns true, hands out the staging pointer and length and
\* advances the slot; any other non-success result raises the present error.
C15_PresentClassified ==
    [][ /\ (pc = "present" /\ pc' # "present")
            => \/ pc' = "map" /\ pres' \in NonFatalPresent \cup {"SUCCESS"}
               \/ pc' = "idle" /\ result' = "throw" /\ what' = "present"
        /\ (pres \in NonFatalPresent /\ pc \in {"map", "finish"} /\ pc' = "idle")
            => /\ result' = "true"
               /\ what' = "none"
               /\ outMappedPtr' = "staging"
               /\ outSize' = stagingSize
               /\ currentFrame' = (currentFrame + 1) % maxFramesInFlight
      ]_vars

\* the same classification for the calls whose vkMapMemory hands back a pointer
C15_WhenMapSucceeds ==
    [][ /\ (pc = "present" /\ pc' # "present")
            => \/ pc' = "map" /\ pres' \in NonFatalPresent \cup {"SUCCESS"}
               \/ pc' = "idle" /\ result' = "throw" /\ what' = "present"
        /\ (pres \in NonFatalPresent /\ pc = "finish" /\ pc' = "idle")
            => /\ result' = "true"
               /\ what' = "none"
               /\ outMappedPtr' = "staging"
               /\ outSize' = stagingSize
               /\ currentFrame' = (currentFrame + 1) % maxFramesInFlight
      ]_vars

\* C16: Renderer::cleanup called twice destroys or frees each semaphore, each
\* fence, the staging buffer and the staging memory at most once, and unmaps
\* at most once.
C16_RendererCleanupOnce ==
    \A r \in RendererResources : Destroyed(r) <= 1

\* ComputePipeline::init has run
ComputeInitDone == width # 0

\* C17: ComputePipeline::cleanup is idempotent: a call before init releases
\* nothing, the first call after init releases each of the seven resources,
\* and no further call releases anything, so each is released exactly once.
C17_ComputeCleanupIdempotent ==
    /\ \A r \in ComputeResources : Destroyed(r) <= 1
    /\ (~ComputeInitDone \/ computeDevice)
          => \A r \in ComputeResources : Destroyed(r) = 0
    /\ (ComputeInitDone /\ ~computeDevice)
          => \A r \in ComputeResources : Destroyed(r) = 1

\* cleanup has been called twice after init
C17_Witness ==
    /\ Len(cleanups["ComputePipeline"]) >= 2
    /\ \A k \in 1 .. 2 : cleanups["ComputePipeline"][k]
    /\ \A r \in ComputeResources : Destroyed(r) = 1

\* C18: VulkanContext::cleanup followed by a second cleanup or the destructor
\* destroys each image view, the swapchain, the command pool, the device, the
\* surface and the instance at most once.
C18_ContextCleanupOnce ==
    \A r \in ContextResources : Destroyed(r) <= 1

\* C19: Renderer::cleanup and VulkanContext::cleanup destroy the staging
\* buffer, the slot semaphores and fences and the device only when no
\* submission made by renderFrame is still outstanding.
C19_DestroyWhenIdle ==
    [][ (\E r \in RendererResources \cup ContextResources :
             Destroyed(r)' > Destroyed(r))
          => gpuQueue = << >> ]_vars

\* C20: when renderFrame raises the submission or the present error, the
\* frame's command buffer has been freed and the acquired image handed back.
C20_ReleasedBeforeError ==
    what \in {"submit", "present"}
       => /\ calls \notin liveCmds
          /\ images[imageIndex] # "acquired"

\* bit numbers set in x
BitsOf(x) == { b \in 0 .. (MaxTypes + FlagBits) : (x \div (2 ^ b)) % 2 = 1 }

\* memory type i is allowed by typeFilter and has every property of props
Suitable(i) ==
    /\ i \in BitsOf(typeFilter)
    /\ BitsOf(props) \subseteq BitsOf(memProps[i + 1])

\* C21: findMemoryType returns the smallest index below the memory type
\* count whose bit is set in typeFilter and whose flags include every bit of
\* props, and raises an error when there is none.
C21_FirstSuitableType ==
    LET found == { i \in 0 .. (Len(memProps) - 1) : Suitable(i) }
    IN  /\ memState = "returned"
            => /\ memResult \in found
               /\ \A i \in found : memResult <= i
        /\ memState = "thrown" => found = {}

\* type 0 is allowed by the filter but lacks a requested property, and a
\* later type is returned
C21_Witness ==
    /\ memState = "returned"
    /\ memResult >= 1
    /\ 0 \in BitsOf(typeFilter)
    /\ props # 0
    /\ BitAnd(memProps[1], props) # 0

\* C22: for width >= 1 and height >= 1 recordDispatch dispatches
\* ceil(width/16) by ceil(height/16) by 1 groups: 16 times the group count
\* covers the canvas in each dimension and one group less would not.
C22_GroupsCoverCanvas ==
    cmd # << >>
       => /\ width >= 1 /\ height >= 1
          /\ 16 * cmd[1].gx >= width
          /\ 16 * (cmd[1].gx - 1) < width
          /\ 16 * cmd[1].gy >= height
          /\ 16 * (cmd[1].gy - 1) < height
          /\ cmd[1].gz = 1

\* a canvas one pixel wider than a group and exactly one group high
C22_Witness ==
    /\ cmd # << >>
    /\ width = 17 /\ height = 16
    /\ cmd[1].gx = 2 /\ cmd[1].gy = 1

\* C23: endSingleTimeCommands, run by ComputePipeline::init for the canvas
\* transition, raises an error when its queue submission fails: init gets
\* past it only when the submitted commands have run.
C23_OneShotFailureRaises ==
    [][ (pc = "start" /\ pc' # "start") => canvasLayout' = "GENERAL" ]_vars

\* the bytes of the writeFrameRGBA calls k .. Len(passed) on the open pipe
RECURSIVE PassedFrom(_)
PassedFrom(k) ==
    IF k > Len(passed) THEN << >> ELSE passed[k].data \o PassedFrom(k + 1)

\* this step is a writeFrameRGBA call on an open pipe
WritesOnOpenPipe ==
    /\ writerCalls'["writeFrameRGBA"] = writerCalls["writeFrameRGBA"] + 1
    /\ ffmpeg

\* C24: when the stream accepts fewer bytes than writeFrameRGBA was asked to
\* write, the call reports a warning and returns with the pipe still open,
\* and later calls still write their frames.
C24_ShortWriteWarns ==
    [][ WritesOnOpenPipe
          => LET call == passed'[Len(passed')]
             IN  /\ Len(passed') = Len(passed) + 1
                 /\ ffmpeg'
                 /\ warnings' = IF call.wrote < Len(call.data)
                                THEN warnings + 1 ELSE warnings
                 /\ stream' = stream \o SubSeq(call.data, 1, call.wrote) ]_vars

\* a short write was followed by a write the stream accepted in full
C24_Witness ==
    /\ ffmpeg
    /\ warnings = 1
    /\ Len(passed) = 2
    /\ passed[1].wrote < Len(passed[1].data)
    /\ passed[2].wrote = Len(passed[2].data)
    /\ stream = SubSeq(passed[1].data, 1, passed[1].wrote) \o passed[2].data

\* C25: between open and close, when every write was accepted in full, the
\* stream holds exactly the bytes passed to writeFrameRGBA, in call order,
\* with nothing added.
C25_StreamIsConcatenation ==
    (\A k \in 1 .. Len(passed) : passed[k].wrote = Len(passed[k].data))
       => stream = PassedFrom(1)

\* two frames of different bytes were written in full
C25_Witness ==
    /\ ffmpeg
    /\ Len(passed) = 2
    /\ passed[1].data # passed[2].data
    /\ \A k \in 1 .. 2 : passed[k].wrote = Len(passed[k].data)
    /\ Len(stream) = Len(passed[1].data) + Len(passed[2].data)

\* the dispatches recorded in the pending command buffers and in the one
\* being recorded
RecordedDispatches ==
    { gpuQueue[k].cmds[1] : k \in 1 .. Len(gpuQueue) }
    \cup (IF cmd = << >> THEN {} ELSE {cmd[1]})

ReturnedNormally == pc = "idle" /\ result \in {"true", "false"}

\* C27: whenever renderFrame has returned normally the application holds no
\* acquired presentation image: what a call acquired it handed back by its
\* present request.
C27_NoImageHeld ==
    ReturnedNormally => \A i \in Images : images[i] # "acquired"

\* the same for a renderer none of whose calls has raised an error
C27_NoImageHeldWithoutError ==
    (ReturnedNormally /\ ~thrown) => \A i \in Images : images[i] # "acquired"

\* every renderFrame call made so far that has ended returned true
EveryCallSucceeded == ~thrown /\ result # "false"

\* C28: while every call succeeds, the k-th call (from 0) uses slot
\* k mod maxFramesInFlight; and currentFrame is always a slot index.
C28_SlotOfCall ==
    /\ currentFrame \in 0 .. (maxFramesInFlight - 1)
    /\ (EveryCallSucceeded /\ pc \notin CleanupPoints)
          => currentFrame = (calls - 1) % maxFramesInFlight
    /\ (EveryCallSucceeded /\ pc = "idle")
          => currentFrame = calls % maxFramesInFlight

\* the fourth call is running after three calls that returned true
C28_Witness ==
    /\ EveryCallSucceeded
    /\ calls = 4
    /\ pc = "submit"
    /\ currentFrame = 1

\* layout of the presentation image after the first n commands of a command
\* buffer, the image being UNDEFINED when freshly acquired
RECURSIVE SwapLayoutAfter(_, _)
SwapLayoutAfter(cmds, n) ==
    IF n = 0 THEN "UNDEFINED"
    ELSE IF cmds[n].op = "barrier" /\ cmds[n].target = "swapchain"
         THEN cmds[n].new
         ELSE SwapLayoutAfter(cmds, n - 1)

\* the command the queue executes next is valid for the layouts the images
\* are in
NextCommandFitsLayouts ==
    (gpuQueue # << >> /\ ~deviceLost) =>
        LET sub == Head(gpuQueue)
            c == sub.cmds[sub.pos + 1]
            swap == SwapLayoutAfter(sub.cmds, sub.pos)
        IN  /\ (c.op = "barrier" /\ c.target = "canvas")
                  => c.old = canvasLayout
            /\ (c.op = "barrier" /\ c.target = "swapchain")
                  => c.old \in {swap, "UNDEFINED"}
            /\ c.op \in {"copyImage", "copyImageToBuffer"}
                  => canvasLayout = "TRANSFER_SRC"
            /\ c.op = "copyImage" => swap = "TRANSFER_DST"

\* C29: in every frame each barrier's old layout is the layout the image is
\* in at that point (UNDEFINED being accepted for the acquired presentation
\* image), and both copies run with the canvas in TRANSFER_SRC and the
\* presentation image in TRANSFER_DST.
C29_BarriersMatchLayouts == NextCommandFitsLayouts

\* the same for a canvas that ComputePipeline::init has brought to GENERAL
C29_WhenInitTransitionRan ==
    canvasLayout # "UNDEFINED" => NextCommandFitsLayouts

\* C30: whenever renderFrame has returned normally every slot's fence is
\* signaled or is the fence of a pending submission.
C30_NoDeadFence ==
    ReturnedNormally
       => \A s \in Slots :
             \/ inFlightFence[s]
             \/ \E k \in 1 .. Len(gpuQueue) : gpuQueue[k].fence = s

\* C31: no slot semaphore is signaled again while an earlier signal on it is
\* unconsumed: a slot's available semaphore carries at most one pending signal
\* and so does its finished semaphore.
C31_NoDoubleSignal ==
    \A s \in Slots : imageAvailable[s] <= 1 /\ renderFinished[s] <= 1

\* the half of C31 about the available semaphore, for a renderer none of
\* whose calls has raised an error
C31_AvailableWithoutError ==
    ~thrown => \A s \in Slots : imageAvailable[s] <= 1

\* the running call is one of the first maxFramesInFlight and finds its
\* slot's fence signaled as Renderer::init created it
FirstCallsPassFence ==
    (pc = "wait" /\ calls <= maxFramesInFlight)
       => inFlightFence[currentFrame] /\ ~slotUsed[currentFrame]

\* C32: every slot fence is created signaled, so each of the first
\* maxFramesInFlight renderFrame calls after init finds its fence signaled
\* without any queue submission having completed.
C32_FirstCallsPassFence == FirstCallsPassFence

\* the same while every call made so far has returned true
C32_WhenEveryCallSucceeded ==
    EveryCallSucceeded => FirstCallsPassFence

\* C33: when every acquisition, submission and present succeeds and the queue
\* completes every submission, every renderFrame call eventually returns true.
C33_EveryCallReturnsTrue ==
    \A k \in 1 .. MaxCalls :
        (pc = "wait" /\ calls = k)
            ~> (pc = "idle" /\ calls = k /\ result = "true")

\* every call eventually gets past its fence wait and its acquisition, and
\* ends: it returns true unless vkMapMemory left mapped null
C33_ReturnsUnlessMapFails ==
    \A k \in 1 .. MaxCalls :
        (pc = "wait" /\ calls = k)
            ~> (pc = "idle" /\ calls = k
                  /\ (result = "true" \/ (result = "throw" /\ what = "map")))

\* C34: the staging memory is mapped once, by Renderer::init, and stays
\* mapped until Renderer::cleanup: no renderFrame call maps it again.
C34_MappedOnce ==
    (stagingMemory /\ pc # "shutdown") => mapCount = 1

\* a step of a call that has not got past its acquisition
BeforeRecording ==
    pc \in {"idle", "wait", "acquire"} /\ pc' \in {"idle", "wait", "acquire"}

\* C35: after calls that all returned normally no command buffer allocated
\* by renderFrame remains allocated; a call that returns false has allocated
\* none and has written neither *outMappedPtr nor *outSize.
C35_NothingLeftAllocated ==
    /\ [](ReturnedNormally /\ ~thrown => liveCmds = {})
    /\ [][ BeforeRecording
             => /\ liveCmds' = liveCmds
                /\ outMappedPtr' = outMappedPtr
                /\ outSize' = outSize ]_vars
    /\ [][ (pc # "idle" /\ pc' = "idle" /\ result' = "false")
             => BeforeRecording ]_vars

\* a call has returned false after an earlier call handed out the staging
\* pointer
C35_Witness ==
    /\ ReturnedNormally
    /\ ~thrown
    /\ result = "false"
    /\ outMappedPtr = "staging"
    /\ calls >= 2

\* the acquisition results renderFrame goes on from
ContinuingAcquire == {"SUCCESS", "SUBOPTIMAL"}

\* C36: the acquisition result is classified: success and suboptimal continue
\* the frame to recording, and a call that then returns true has submitted
\* and presented; out-of-date returns false; any other result raises the
\* acquisition error before a command buffer is allocated.
C36_AcquireClassified ==
    /\ [][ (pc = "acquire" /\ pc' # "acquire")
             => CASE acq' \in ContinuingAcquire ->
                       pc' = "record" /\ what' = "none"
                  [] acq' = "OUT_OF_DATE" ->
                       pc' = "idle" /\ result' = "false" /\ what' = "none"
                  [] OTHER ->
                       /\ pc' = "idle"
                       /\ result' = "throw"
                       /\ what' = "acquire"
                       /\ liveCmds' = liveCmds
                       /\ calls \notin liveCmds' ]_vars
    /\ []((acq \in ContinuingAcquire /\ pc = "idle")
             => \/ result = "true" /\ didSubmit /\ didPresent
                \/ result = "throw" /\ what \in {"submit", "present", "map"})

\* a second or later frame whose acquisition was suboptimal has returned true,
\* having made its submission and its present request
C36_Witness ==
    /\ pc = "idle"
    /\ acq = "SUBOPTIMAL"
    /\ result = "true"
    /\ didSubmit
    /\ didPresent
    /\ calls >= 2

\* the calls of endSingleTimeCommands in the order of the source
OneShotSteps ==
    << "vkEndCommandBuffer", "vkQueueSubmit", "vkQueueWaitIdle",
       "vkFreeCommandBuffers" >>

\* C37: endSingleTimeCommands ends the recording, submits, waits for the
\* queue to be idle and frees the command buffer, in this order; it returns
\* only after the submitted commands have completed, and the command buffer
\* is not freed while its submission is pending.
C37_EndSubmitWaitFree ==
    /\ [](oneShotLog = SubSeq(OneShotSteps, 1, Len(oneShotLog)))
    /\ []((oneShotPc = "idle" /\ oneShots > 0)
             => oneShotLog = OneShotSteps /\ queueLeft = 0)
    /\ [][oneShotCmd /\ ~oneShotCmd' => queueLeft = 0]_vars

\* a one-shot submission of several commands has completed and the helper
\* has returned
C37_Witness ==
    /\ oneShotPc = "idle"
    /\ oneShotLog = OneShotSteps
    /\ recorded = MaxOneShotCmds
    /\ queueLeft = 0

\* what ComputePipeline::cleanup has released so far, in order
ComputeReleased == destroyLog["ComputePipeline"]

\* position of a member in the release order, 0 when it was not released
ReleasedAt(name) ==
    IF \E k \in 1 .. Len(ComputeReleased) : ComputeReleased[k] = Res(name, 0)
    THEN CHOOSE k \in 1 .. Len(ComputeReleased) : ComputeReleased[k] = Res(name, 0)
    ELSE 0

\* C38: ComputePipeline::cleanup releases pipeline, pipeline layout,
\* descriptor pool, descriptor set layout, image view, image and image
\* memory in this order: the view before the image, the image before its
\* memory.
C38_ReleaseOrder ==
    ComputeReleased # << >> =>
        /\ ComputeReleased =
              << Res("pipeline", 0), Res("layout", 0), Res("descPool", 0),
                 Res("descLayout", 0), Res("storageView", 0),
                 Res("storageImage", 0), Res("storageMemory", 0) >>
        /\ ReleasedAt("storageView") < ReleasedAt("storageImage")
        /\ ReleasedAt("storageImage") < ReleasedAt("storageMemory")

\* cleanup has released the pipeline's resources after frames were rendered
C38_Witness ==
    /\ Len(ComputeReleased) = 7
    /\ ReleasedAt("storageMemory") = 7
    /\ ~computeDevice
    /\ calls >= 1

\* what a VideoWriter call can change
WriterState == << ffmpeg, stream, passed, warnings, pcloses, openFailed >>

====
